---- MODULE Spec2Model ----
(***************************************************************************)
(* A model of kernels_changes_search.py: the directory lister, the         *)
(* per-directory CHANGES searcher, the thread-pool orchestrator, the       *)
(* console reporter and the optional file report of main().                *)
(*                                                                         *)
(* Python strings are sequences of one-character strings, so that strip,   *)
(* replace, split, lower, int() and the regular expressions are computed   *)
(* character by character as the interpreter computes them.                *)
(***************************************************************************)
EXTENDS Integers, Sequences, FiniteSets, TLC

VARIABLES
    pc,               \* position of the main thread in main()
    page,             \* outcome of the GET of the listing page
    fetch,            \* outcome of the GET of <directory>CHANGES, per directory
    search_patterns,  \* args.patterns
    max_workers,      \* args.max_workers
    output,           \* whether args.output is given (a non-empty path)
    directories,      \* the list get_kernel_directories returned
    futures,          \* future_to_dir: one future per submitted task
    results,          \* the dict of search_all_changes, in insertion order
    processed,        \* the counter of search_all_changes
    sorted_versions,  \* the key order print_results computed
    console,          \* what print_results printed
    outfile,          \* the body written to args.output
    logged            \* the error messages printed so far

vars == <<pc, page, fetch, search_patterns, max_workers, output, directories,
          futures, results, processed, sorted_versions, console, outfile, logged>>

-----------------------------------------------------------------------------
(* Bounds of the model.                                                    *)

\* longest listing page (number of href attributes) of the full run
MaxDirs == 3
\* longest listing page of the lister-only specification
MaxHrefs == 3

-----------------------------------------------------------------------------
(* Python's str and list primitives.                                       *)

Digits == {"0", "1", "2", "3", "4", "5", "6", "7", "8", "9"}

DigitVal(c) ==
    CASE c = "0" -> 0 [] c = "1" -> 1 [] c = "2" -> 2 [] c = "3" -> 3
      [] c = "4" -> 4 [] c = "5" -> 5 [] c = "6" -> 6 [] c = "7" -> 7
      [] c = "8" -> 8 [] c = "9" -> 9

\* str.isdigit(): non-empty and every character a digit
IsDigit(s) == Len(s) > 0 /\ \A i \in 1..Len(s) : s[i] \in Digits

\* int(s) of a string of digits
RECURSIVE ToInt(_)
ToInt(s) ==
    IF Len(s) = 0 THEN 0
    ELSE 10 * ToInt(SubSeq(s, 1, Len(s) - 1)) + DigitVal(s[Len(s)])

\* s.strip(chars): the leading and the trailing characters of chars removed
RECURSIVE LStrip(_, _)
LStrip(s, chars) ==
    IF Len(s) > 0 /\ s[1] \in chars THEN LStrip(Tail(s), chars) ELSE s

RECURSIVE RStrip(_, _)
RStrip(s, chars) ==
    IF Len(s) > 0 /\ s[Len(s)] \in chars
    THEN RStrip(SubSeq(s, 1, Len(s) - 1), chars) ELSE s

Strip(s, chars) == RStrip(LStrip(s, chars), chars)

StartsWith(s, old) == Len(s) >= Len(old) /\ SubSeq(s, 1, Len(old)) = old

\* s.replace(old, new): leftmost non-overlapping occurrences, old non-empty
RECURSIVE Replace(_, _, _)
Replace(s, old, new) ==
    IF Len(s) = 0 THEN << >>
    ELSE IF StartsWith(s, old)
         THEN new \o Replace(SubSeq(s, Len(old) + 1, Len(s)), old, new)
         ELSE <<s[1]>> \o Replace(Tail(s), old, new)

\* s.split(sep) for a one-character sep: always at least one part
RECURSIVE SplitFrom(_, _, _)
SplitFrom(s, sep, cur) ==
    IF Len(s) = 0 THEN <<cur>>
    ELSE IF s[1] = sep THEN <<cur>> \o SplitFrom(Tail(s), sep, << >>)
         ELSE SplitFrom(Tail(s), sep, Append(cur, s[1]))

Split(s, sep) == SplitFrom(s, sep, << >>)

LowerChar(c) == CASE c = "A" -> "a" [] c = "B" -> "b" [] OTHER -> c

\* s.lower()
Lower(s) == [i \in 1..Len(s) |-> LowerChar(s[i])]

\* the code point of a character of a version label
Ord(c) ==
    CASE c = "-" -> 45 [] c = "." -> 46 [] c = "/" -> 47
      [] c \in Digits -> 48 + DigitVal(c)
      [] c = "c" -> 99 [] c = "r" -> 114 [] c = "v" -> 118

\* a < b for two lists of int: lexicographic, a proper prefix is smaller
RECURSIVE ListLess(_, _)
ListLess(a, b) ==
    IF Len(b) = 0 THEN FALSE
    ELSE IF Len(a) = 0 THEN TRUE
    ELSE IF a[1] = b[1] THEN ListLess(Tail(a), Tail(b))
    ELSE a[1] < b[1]

\* a < b for two str: the comparison of their code points
StrLess(a, b) ==
    ListLess([i \in 1..Len(a) |-> Ord(a[i])], [i \in 1..Len(b) |-> Ord(b[i])])

\* Position of x in the output of a stable descending sort: after every
\* element already placed whose key is not smaller than x's.
RECURSIVE InsertDesc(_, _)
InsertDesc(placed, x) ==
    IF Len(placed) = 0 THEN <<x>>
    ELSE IF ListLess(placed[1].key, x.key) THEN <<x>> \o placed
    ELSE <<placed[1]>> \o InsertDesc(Tail(placed), x)

RECURSIVE SortDescFrom(_, _)
SortDescFrom(placed, rest) ==
    IF Len(rest) = 0 THEN placed
    ELSE SortDescFrom(InsertDesc(placed, rest[1]), Tail(rest))

\* list.sort(key=..., reverse=True) on [item, key] pairs: stable, equal keys
\* keep their order
SortDesc(keyed) ==
    LET s == SortDescFrom(<< >>, keyed)
    IN  [i \in 1..Len(s) |-> s[i].item]

Range(f) == {f[i] : i \in DOMAIN f}

-----------------------------------------------------------------------------
(* The version ordering.                                                   *)

\* the value given to a segment that is not a number
Sentinel == 999

\* a version_key whose segments that are not numbers get 0
PartKeyZero(p) ==
    LET q == Replace(p, <<"r", "c">>, << >>)
    IN  IF IsDigit(q) THEN ToInt(q) ELSE 0

\* one element of the list comprehension of version_key
PartKey(p) ==
    LET q == Replace(p, <<"r", "c">>, << >>)
    IN  IF IsDigit(q) THEN ToInt(q) ELSE Sentinel

\* version.replace('-rc', '.rc').split('.')
VersionParts(version) ==
    Split(Replace(version, <<"-", "r", "c">>, <<".", "r", "c">>), ".")

PartsKey(version) ==
    LET parts == VersionParts(version)
    IN  [i \in 1..Len(parts) |-> PartKey(parts[i])]

\* version_key of get_kernel_directories: d.strip('v/') first
version_key(d) == PartsKey(Strip(d, {"v", "/"}))

\* version_key of print_results: version.replace('v', '') first
report_version_key(version) == PartsKey(Replace(version, <<"v">>, << >>))

-----------------------------------------------------------------------------
(* The directory lister.                                                   *)

\* the part after v[\d\.]+ : -?(?:rc\d+)? then the closing slash
RcTail(t) ==
    LET u == IF Len(t) > 0 /\ t[1] = "-" THEN Tail(t) ELSE t
    IN  \/ u = << >>
        \/ /\ StartsWith(u, <<"r", "c">>)
           /\ IsDigit(SubSeq(u, 3, Len(u)))

\* whether an href value is captured by dir_pattern
DirMatch(h) ==
    /\ Len(h) >= 3
    /\ h[1] = "v"
    /\ h[Len(h)] = "/"
    /\ \E k \in 2..(Len(h) - 1) :
          /\ \A i \in 2..k : h[i] \in Digits \cup {"."}
          /\ RcTail(SubSeq(h, k + 1, Len(h) - 1))

\* re.findall(dir_pattern, response.text): every capture, in page order
RECURSIVE FindAllDirs(_)
FindAllDirs(hrefs) ==
    IF Len(hrefs) = 0 THEN << >>
    ELSE (IF DirMatch(hrefs[1]) THEN <<hrefs[1]>> ELSE << >>)
         \o FindAllDirs(Tail(hrefs))

\* the list get_kernel_directories returns for a listing-page outcome
KernelDirectories(p) ==
    IF p.ok
    THEN LET found == FindAllDirs(p.hrefs)
         IN  SortDesc([i \in 1..Len(found) |->
                          [item |-> found[i], key |-> version_key(found[i])]])
    ELSE << >>

-----------------------------------------------------------------------------
(* The regular expressions of the searcher and of the reporter.            *)

\* characters str.strip() removes
Whitespace == {" ", "\t", "\r"}

\* pattern.replace('*', '.*')
WildcardToRegex(pattern) == Replace(pattern, <<"*">>, <<".", "*">>)

\* re.error of the compiler: a parenthesis that is not balanced
RECURSIVE Unbalanced(_, _)
Unbalanced(regex, depth) ==
    IF Len(regex) = 0 THEN depth # 0
    ELSE IF regex[1] = "(" THEN Unbalanced(Tail(regex), depth + 1)
    ELSE IF regex[1] = ")" THEN depth = 0 \/ Unbalanced(Tail(regex), depth - 1)
    ELSE Unbalanced(Tail(regex), depth)

ReError(regex) == Unbalanced(regex, 0)

AtomMatches(atom, c) == atom = "." \/ atom = c

\* whether regex[i..] matches s from position j on (atoms and starred atoms)
RECURSIVE MatchHere(_, _, _, _)
MatchHere(regex, i, s, j) ==
    IF i > Len(regex) THEN TRUE
    ELSE IF i < Len(regex) /\ regex[i + 1] = "*"
    THEN \E k \in j..(Len(s) + 1) :
            /\ \A m \in j..(k - 1) : AtomMatches(regex[i], s[m])
            /\ MatchHere(regex, i + 2, s, k)
    ELSE /\ j <= Len(s)
         /\ AtomMatches(regex[i], s[j])
         /\ MatchHere(regex, i + 1, s, j + 1)

\* re.search(regex, s) is not None, for a regex that compiles
ReSearch(regex, s) == \E j \in 1..(Len(s) + 1) : MatchHere(regex, 1, s, j)

-----------------------------------------------------------------------------
(* The per-directory searcher.                                             *)

\* The inner loop over the patterns for one line: "match" at the first
\* pattern that matches (then break), "error" when a pattern that is reached
\* does not compile, "nomatch" when the patterns are exhausted.
RECURSIVE LineOutcome(_, _)
LineOutcome(line_lower, patterns) ==
    IF Len(patterns) = 0 THEN "nomatch"
    ELSE LET regex_pattern == Lower(WildcardToRegex(patterns[1]))
         IN  IF ReError(regex_pattern) THEN "error"
             ELSE IF ReSearch(regex_pattern, line_lower) THEN "match"
             ELSE LineOutcome(line_lower, Tail(patterns))

\* The loop over the lines from line number n on; acc holds the records
\* appended so far. An exception ends the loop and keeps acc.
RECURSIVE ScanLines(_, _, _, _, _)
ScanLines(lines, n, directory, patterns, acc) ==
    IF n > Len(lines) THEN [matches |-> acc, log |-> "none", raised |-> FALSE]
    ELSE LET o == LineOutcome(Lower(lines[n]), patterns)
         IN  IF o = "error"
             THEN [matches |-> acc, log |-> "processing", raised |-> FALSE]
             ELSE ScanLines(lines, n + 1, directory, patterns,
                    IF o = "match"
                    THEN Append(acc, [version  |-> Strip(directory, {"/"}),
                                      line     |-> Strip(lines[n], Whitespace),
                                      line_num |-> n])
                    ELSE acc)

\* search_changes_file without its status checks: the body of any response
\* is searched
SearchAnyResponse(directory, patterns, response) ==
    IF response.status = 0
    THEN [matches |-> << >>, log |-> "fetching", raised |-> FALSE]
    ELSE ScanLines(Split(response.text, "\n"), 1, directory, patterns, << >>)

\* search_changes_file(directory, search_patterns) for the response the GET
\* of the CHANGES file gets: status 0 stands for a GET that raises (timeout,
\* connection error). The value returned, the message printed, and whether
\* an exception leaves the function (both except clauses return normally).
search_changes_file(directory, patterns, response) ==
    IF response.status = 0
    THEN [matches |-> << >>, log |-> "fetching", raised |-> FALSE]
    ELSE IF response.status = 404
    THEN [matches |-> << >>, log |-> "none", raised |-> FALSE]
    ELSE IF response.status >= 400
    THEN [matches |-> << >>, log |-> "fetching", raised |-> FALSE]
    ELSE ScanLines(Split(response.text, "\n"), 1, directory, patterns, << >>)

-----------------------------------------------------------------------------
(* The results dict: a sequence of [version, matches] in insertion order.  *)

Keys(res) == {res[i].version : i \in DOMAIN res}

Lookup(res, version) ==
    IF version \in Keys(res)
    THEN (CHOOSE i \in DOMAIN res : res[i].version = version)
    ELSE 0

MatchesOf(res, version) ==
    IF version \in Keys(res) THEN res[Lookup(res, version)].matches ELSE << >>

\* results[version].append((line, line_num)), the key created when missing
AddMatch(res, m) ==
    LET rec == [line |-> m.line, line_num |-> m.line_num]
    IN  IF m.version \in Keys(res)
        THEN [res EXCEPT ![Lookup(res, m.version)].matches = Append(@, rec)]
        ELSE Append(res, [version |-> m.version, matches |-> <<rec>>])

\* the loop that merges the matches of one future into results
RECURSIVE MergeMatches(_, _)
MergeMatches(res, matches) ==
    IF Len(matches) = 0 THEN res
    ELSE MergeMatches(AddMatch(res, matches[1]), Tail(matches))

-----------------------------------------------------------------------------
(* The reporter and the file report.                                       *)

\* One entry of a report. t is "nomatch", "banner", "header" or "version".
Entry(t, version, count, lines) ==
    [t |-> t, version |-> version, count |-> count, lines |-> lines]

Plain(t) == Entry(t, << >>, 0, << >>)

\* the keys of results in insertion order: results.keys()
KeyList(res) == [i \in 1..Len(res) |-> res[i].version]

\* sorted(results.keys(), key=version_key, reverse=True) of print_results
SortedVersions(res) ==
    SortDesc([i \in 1..Len(res) |->
                 [item |-> res[i].version, key |-> report_version_key(res[i].version)]])

\* sorted(results.keys(), reverse=True) of the file report: str order
FileSortedVersions(res) ==
    SortDesc([i \in 1..Len(res) |->
                 [item |-> res[i].version,
                  key  |-> [j \in 1..Len(res[i].version) |-> Ord(res[i].version[j])]]])

Block(res, version) ==
    Entry("version", version, Len(MatchesOf(res, version)), MatchesOf(res, version))

\* re.sub(f'({regex_pattern})', ...) raises for a pattern that does not
\* compile; the reporter runs it for every pattern on the first line it prints
HighlightRaises(patterns) ==
    \E i \in DOMAIN patterns :
        ReError(<<"(">> \o WildcardToRegex(patterns[i]) \o <<")">>)

\* What print_results prints when no re.sub raises. The highlighted text of
\* a line is not modelled: a line entry keeps the line and its number.
ConsoleReport(res) ==
    IF Len(res) = 0 THEN <<Plain("nomatch")>>
    ELSE LET sv == SortedVersions(res)
         IN  <<Plain("banner")>> \o [i \in 1..Len(sv) |-> Block(res, sv[i])]

\* What print_results has printed when re.sub raises on the first line: the
\* banner and the heading of the first version
ConsoleUntilRaise(res) ==
    LET sv == SortedVersions(res)
    IN  <<Plain("banner"),
          Entry("version", sv[1], Len(MatchesOf(res, sv[1])), << >>)>>

\* a file report without the else branch
FileReportNoElse(res) ==
    LET sv == FileSortedVersions(res)
    IN  <<Plain("header")>> \o [i \in 1..Len(sv) |-> Block(res, sv[i])]

\* what main writes to args.output
FileReport(res) ==
    IF Len(res) = 0 THEN <<Plain("header"), Plain("nomatch")>>
    ELSE LET sv == FileSortedVersions(res)
         IN  <<Plain("header")>> \o [i \in 1..Len(sv) |-> Block(res, sv[i])]

\* the version blocks of a report, in the order written
RECURSIVE Blocks(_)
Blocks(report) ==
    IF Len(report) = 0 THEN << >>
    ELSE (IF report[1].t = "version" THEN <<report[1]>> ELSE << >>)
         \o Blocks(Tail(report))

-----------------------------------------------------------------------------
(* The inputs of a run.                                                    *)

v6_2 == <<"v", "6", ".", "2", "/">>
v6_10 == <<"v", "6", ".", "1", "0", "/">>
v6_1 == <<"v", "6", ".", "1", "/">>
v6_1_rc1 == <<"v", "6", ".", "1", "-", "r", "c", "1", "/">>
v6_1_1_rc1 == <<"v", "6", ".", "1", ".", "1", "-", "r", "c", "1", "/">>
v6_1000 == <<"v", "6", ".", "1", "0", "0", "0", "/">>
\* matches dir_pattern and has an empty segment
v6__rc1 == <<"v", "6", ".", "-", "r", "c", "1", "/">>
ParentDir == <<".", ".", "/">>

\* href values of the listing page of a full run
RunHrefs == {v6_2, v6_10, ParentDir}
\* href values of the listing page when the version ordering is examined
SortHrefs == {v6_2, v6_10, v6_1, v6_1_rc1, v6_1_1_rc1, v6_1000, v6__rc1, ParentDir}

AllDirs == {h \in SortHrefs : DirMatch(h)}

SeqsUpTo(S, n) == UNION {[1..k -> S] : k \in 0..n}

\* "Ab", " b " and "a" on three lines
FileA == <<"A", "b", "\n", " ", "b", " ", "\n", "a">>
\* "b" on two lines
FileB == <<"b", "\n", "b">>
\* the body of an error page; it would match the patterns
ErrorBody == <<"a", "b">>

Responses ==
    { [status |-> 200, text |-> FileA],
      [status |-> 200, text |-> FileB],
      [status |-> 404, text |-> ErrorBody],
      [status |-> 500, text |-> ErrorBody],
      [status |-> 0,   text |-> << >>] }

PatternLists ==
    { << <<"a", "*", "b">> >>,
      << <<"a", "*", "b">>, <<"B">> >>,
      << <<"B">>, <<"(">> >>,
      << <<"c">> >> }

\* the default of --max-workers
DefaultMaxWorkers == 10

FailedPage == [ok |-> FALSE, hrefs |-> << >>]

Pages(hrefs, n) == {FailedPage} \cup {[ok |-> TRUE, hrefs |-> h] : h \in SeqsUpTo(hrefs, n)}

-----------------------------------------------------------------------------
(* The run of main().                                                      *)

InitRun ==
    /\ pc = "start"
    /\ directories = << >>
    /\ futures = << >>
    /\ results = << >>
    /\ processed = 0
    /\ sorted_versions = << >>
    /\ console = << >>
    /\ outfile = [written |-> FALSE, body |-> << >>]
    /\ logged = {}

\* A full run: a short listing page, any response per listed directory.
Init ==
    /\ InitRun
    /\ page \in Pages(RunHrefs, MaxDirs)
    /\ fetch \in [AllDirs -> Responses]
    /\ \A d \in AllDirs :
          d \notin Range(page.hrefs) => fetch[d] = [status |-> 0, text |-> << >>]
    /\ search_patterns \in PatternLists
    /\ max_workers \in {0, 1, 2, DefaultMaxWorkers}
    /\ output \in BOOLEAN

\* Three command lines: a pool width of 0; a pattern list that compiles,
\* with --output; a pattern list whose second pattern does not compile.
CommandLines ==
    { [max_workers |-> 0, patterns |-> << <<"a", "*", "b">>, <<"B">> >>, output |-> FALSE],
      [max_workers |-> 2, patterns |-> << <<"a", "*", "b">>, <<"B">> >>, output |-> TRUE],
      [max_workers |-> 2, patterns |-> << <<"B">>, <<"(">> >>, output |-> FALSE] }

\* A run over the labels the version ordering is examined on: every CHANGES
\* file is FileB, whose lines the pattern B matches.
SortInit ==
    /\ InitRun
    /\ page \in Pages(SortHrefs, MaxHrefs)
    /\ fetch = [d \in AllDirs |-> [status |-> 200, text |-> FileB]]
    /\ \E c \in CommandLines :
          /\ search_patterns = c.patterns
          /\ max_workers = IF c.max_workers = 0 THEN 0 ELSE 1
          /\ output = c.output

\* A run over a page of version directories in which either v6.10 answers
\* with a server error and v6.2 with FileB, or v6.10 answers with FileA and
\* v6.2 not at all.
FairInit ==
    /\ InitRun
    /\ page \in Pages({v6_2, v6_10}, MaxDirs)
    /\ fetch \in [AllDirs -> Responses]
    /\ \/ /\ fetch[v6_10] = [status |-> 500, text |-> ErrorBody]
          /\ fetch[v6_2] = [status |-> 200, text |-> FileB]
       \/ /\ fetch[v6_10] = [status |-> 200, text |-> FileA]
          /\ fetch[v6_2] = [status |-> 0, text |-> << >>]
    /\ \A d \in AllDirs \ {v6_10, v6_2} : fetch[d] = [status |-> 0, text |-> << >>]
    /\ \E c \in CommandLines :
          /\ search_patterns = c.patterns
          /\ max_workers = c.max_workers
          /\ output = c.output

\* get_kernel_directories(), called first by search_all_changes
GetKernelDirectories ==
    /\ pc = "start"
    /\ directories' = KernelDirectories(page)
    /\ logged' = IF page.ok THEN logged
                 ELSE logged \cup {<<"Error fetching directories", << >> >>}
    /\ pc' = "listed"
    /\ UNCHANGED <<page, fetch, search_patterns, max_workers, output, futures,
                   results, processed, sorted_versions, console, outfile>>

\* if not directories: return {}
NoDirectories ==
    /\ pc = "listed"
    /\ directories = << >>
    /\ results' = << >>
    /\ pc' = "searched"
    /\ UNCHANGED <<page, fetch, search_patterns, max_workers, output, directories,
                   futures, processed, sorted_versions, console, outfile, logged>>

\* ThreadPoolExecutor(max_workers=...) raises ValueError for a width below 1;
\* nothing catches it in search_all_changes or in main
ExecutorRaises ==
    /\ pc = "listed"
    /\ directories # << >>
    /\ max_workers <= 0
    /\ pc' = "crashed"
    /\ UNCHANGED <<page, fetch, search_patterns, max_workers, output, directories,
                   futures, results, processed, sorted_versions, console, outfile,
                   logged>>

\* the dict comprehension that submits one task per directory
SubmitAll ==
    /\ pc = "listed"
    /\ directories # << >>
    /\ max_workers > 0
    /\ futures' = [i \in 1..Len(directories) |->
                      [state |-> "pending", matches |-> << >>,
                       exception |-> FALSE, consumed |-> FALSE]]
    /\ results' = << >>
    /\ processed' = 0
    /\ pc' = "pool"
    /\ UNCHANGED <<page, fetch, search_patterns, max_workers, output, directories,
                   sorted_versions, console, outfile, logged>>

Running == {i \in DOMAIN futures : futures[i].state = "running"}

Pending == {i \in DOMAIN futures : futures[i].state = "pending"}

\* a task that reads the loop variable when it runs, not when submitted
TaskDirectoryLast(i) == directories[Len(directories)]

\* the directory a task was submitted with

TaskDirectory(i) == directories[i]

\* a worker thread takes the oldest queued task
StartTask(i) ==
    /\ pc = "pool"
    /\ i \in Pending
    /\ \A j \in Pending : i <= j
    /\ Cardinality(Running) < max_workers
    /\ futures' = [futures EXCEPT ![i].state = "running"]
    /\ UNCHANGED <<pc, page, fetch, search_patterns, max_workers, output,
                   directories, results, processed, sorted_versions, console,
                   outfile, logged>>

\* the worker runs search_changes_file to its return
FinishTask(i) ==
    /\ pc = "pool"
    /\ i \in Running
    /\ LET d == TaskDirectory(i)
           r == search_changes_file(d, search_patterns, fetch[d])
       IN  /\ futures' = [futures EXCEPT ![i].state = "finished",
                                         ![i].matches = r.matches,
                                         ![i].exception = r.raised]
           /\ logged' = IF r.log = "none" THEN logged
                        ELSE logged \cup {<<r.log, d>>}
    /\ UNCHANGED <<pc, page, fetch, search_patterns, max_workers, output,
                   directories, results, processed, sorted_versions, console,
                   outfile>>

\* an as_completed loop in which a failed task's exception is not caught
ConsumeFutureFailFast(i) ==
    /\ pc = "pool"
    /\ i \in DOMAIN futures
    /\ futures[i].state = "finished"
    /\ ~futures[i].consumed
    /\ processed' = processed + 1
    /\ futures' = [futures EXCEPT ![i].consumed = TRUE]
    /\ IF fetch[directories[i]].status # 200
       THEN pc' = "crashed" /\ results' = results
       ELSE pc' = pc /\ results' = MergeMatches(results, futures[i].matches)
    /\ UNCHANGED <<page, fetch, search_patterns, max_workers, output,
                   directories, sorted_versions, console, outfile, logged>>

\* one iteration of the as_completed loop: any finished future not yet
\* taken; future.result() re-raises the task's exception into the except
ConsumeFuture(i) ==
    /\ pc = "pool"
    /\ i \in DOMAIN futures
    /\ futures[i].state = "finished"
    /\ ~futures[i].consumed
    /\ processed' = processed + 1
    /\ futures' = [futures EXCEPT ![i].consumed = TRUE]
    /\ IF futures[i].exception
       THEN /\ results' = results
            /\ logged' = logged \cup {<<"processing", directories[i]>>}
       ELSE /\ results' = MergeMatches(results, futures[i].matches)
            /\ logged' = logged
    /\ UNCHANGED <<pc, page, fetch, search_patterns, max_workers, output,
                   directories, sorted_versions, console, outfile>>

\* as_completed is exhausted and the with block is left
ExitPool ==
    /\ pc = "pool"
    /\ \A i \in DOMAIN futures : futures[i].consumed
    /\ pc' = "searched"
    /\ UNCHANGED <<page, fetch, search_patterns, max_workers, output, directories,
                   futures, results, processed, sorted_versions, console, outfile,
                   logged>>

\* print_results(results, args.patterns) with nothing to report
PrintNoMatches ==
    /\ pc = "searched"
    /\ Len(results) = 0
    /\ console' = ConsoleReport(results)
    /\ pc' = "printed"
    /\ UNCHANGED <<page, fetch, search_patterns, max_workers, output, directories,
                   futures, results, processed, sorted_versions, outfile, logged>>

\* print_results(results, args.patterns) to its end
PrintResults ==
    /\ pc = "searched"
    /\ Len(results) > 0
    /\ ~HighlightRaises(search_patterns)
    /\ sorted_versions' = SortedVersions(results)
    /\ console' = ConsoleReport(results)
    /\ pc' = "printed"
    /\ UNCHANGED <<page, fetch, search_patterns, max_workers, output, directories,
                   futures, results, processed, outfile, logged>>

\* print_results when re.sub raises re.error: nothing catches it
PrintRaises ==
    /\ pc = "searched"
    /\ Len(results) > 0
    /\ HighlightRaises(search_patterns)
    /\ sorted_versions' = SortedVersions(results)
    /\ console' = ConsoleUntilRaise(results)
    /\ pc' = "crashed"
    /\ UNCHANGED <<page, fetch, search_patterns, max_workers, output, directories,
                   futures, results, processed, outfile, logged>>

\* if args.output: false
SkipSave ==
    /\ pc = "printed"
    /\ ~output
    /\ pc' = "done"
    /\ UNCHANGED <<page, fetch, search_patterns, max_workers, output, directories,
                   futures, results, processed, sorted_versions, console, outfile,
                   logged>>

\* the report is written to args.output
SaveReport ==
    /\ pc = "printed"
    /\ output
    /\ outfile' = [written |-> TRUE, body |-> FileReport(results)]
    /\ pc' = "done"
    /\ UNCHANGED <<page, fetch, search_patterns, max_workers, output, directories,
                   futures, results, processed, sorted_versions, console, logged>>

\* open() raises: the except clause prints the error
SaveFails ==
    /\ pc = "printed"
    /\ output
    /\ logged' = logged \cup {<<"Error saving to file", << >> >>}
    /\ pc' = "done"
    /\ UNCHANGED <<page, fetch, search_patterns, max_workers, output, directories,
                   futures, results, processed, sorted_versions, console, outfile>>

Next ==
    \/ GetKernelDirectories
    \/ NoDirectories
    \/ ExecutorRaises
    \/ SubmitAll
    \/ \E i \in 1..Len(futures) : StartTask(i)
    \/ \E i \in 1..Len(futures) : FinishTask(i)
    \/ \E i \in 1..Len(futures) : ConsumeFuture(i)
    \/ ExitPool
    \/ PrintNoMatches
    \/ PrintResults
    \/ PrintRaises
    \/ SkipSave
    \/ SaveReport
    \/ SaveFails

Spec == Init /\ [][Next]_vars

SortSpec == SortInit /\ [][Next]_vars

\* a step of the pool: of a worker thread or of the as_completed loop
PoolStep ==
    \/ \E i \in 1..Len(futures) : StartTask(i) \/ FinishTask(i) \/ ConsumeFuture(i)
    \/ ExitPool

\* The worker threads and the main thread are scheduled: while the pool can
\* take a step, it eventually takes one.
Fairness == WF_vars(PoolStep)

FairSpec == FairInit /\ [][Next]_vars /\ Fairness

-----------------------------------------------------------------------------
(* The claims.                                                             *)

AfterSearch == {"searched", "printed", "done"}

\* directory.strip('/')
Version(d) == Strip(d, {"/"})

\* the records search_changes_file returns for a listed directory
Expected(d) == search_changes_file(d, search_patterns, fetch[d]).matches

\* The ResultSet of a run that takes the directories one after the other in
\* listed order.
RECURSIVE SequentialFrom(_, _)
SequentialFrom(res, dirs) ==
    IF Len(dirs) = 0 THEN res
    ELSE SequentialFrom(MergeMatches(res, Expected(dirs[1])), Tail(dirs))

SequentialResults == SequentialFrom(<< >>, directories)

SameResultSet(r1, r2) ==
    /\ Keys(r1) = Keys(r2)
    /\ \A v \in Keys(r1) : MatchesOf(r1, v) = MatchesOf(r2, v)

\* C1: whatever the pool width and the order in which the tasks complete,
\* search_all_changes returns the ResultSet that the listing, the responses
\* and the patterns determine: the same keys, and per key the same list of
\* (line, line number) records.
C1_ResultSetDetermined ==
    pc \in AfterSearch => SameResultSet(results, SequentialResults)

\* C1 witness: a run of the default width returned two keys that were
\* inserted in the opposite of the listed order.
C1_Witness ==
    /\ pc = "searched"
    /\ max_workers = DefaultMaxWorkers
    /\ Len(results) = 2
    /\ KeyList(results) # KeyList(SequentialResults)

\* the patterns that match a line
MatchingPatterns(line, patterns) ==
    {i \in DOMAIN patterns :
        LET regex_pattern == Lower(WildcardToRegex(patterns[i]))
        IN  ~ReError(regex_pattern) /\ ReSearch(regex_pattern, Lower(line))}

RecordsOfLine(res, d, n) ==
    {k \in DOMAIN MatchesOf(res, Version(d)) :
        MatchesOf(res, Version(d))[k].line_num = n}

\* C2: after the search, a line of a directory's CHANGES file that matches
\* two or more patterns has exactly one record in the ResultSet list of that
\* directory.
C2_OncePerLine ==
    pc \in AfterSearch =>
        \A d \in Range(directories) :
            fetch[d].status = 200 =>
                LET lines == Split(fetch[d].text, "\n")
                IN  \A n \in DOMAIN lines :
                        Cardinality(MatchingPatterns(lines[n], search_patterns)) >= 2
                            => Cardinality(RecordsOfLine(results, d, n)) = 1

Before(seq, a, b) ==
    \A i, j \in DOMAIN seq : (seq[i] = a /\ seq[j] = b) => i < j

\* r is b followed by -rc and a number
IsRcOf(r, b) ==
    /\ Len(r) > Len(b) + 3
    /\ SubSeq(r, 1, Len(b) + 3) = b \o <<"-", "r", "c">>
    /\ IsDigit(SubSeq(r, Len(b) + 4, Len(r)))

NumericDescending(seq) ==
    /\ Before(seq, Version(v6_10), Version(v6_2))
    /\ Before(seq, Version(v6_2), Version(v6_1_1_rc1))
    /\ \A i, j \in DOMAIN seq : IsRcOf(seq[j], seq[i]) => i < j

Versions(dirs) == [i \in 1..Len(dirs) |-> Version(dirs[i])]

\* C4: in the list the lister returns and in the order the reporter prints
\* (sorted_versions, once print_results has run) v6.10 comes before
\* v6.2, v6.2 before v6.1.1-rc1, and a label before its rc-tagged labels
\* (v6.1 before v6.1-rc1).
C4_VersionOrder ==
    /\ pc = "listed" => NumericDescending(Versions(directories))
    /\ pc = "printed" => NumericDescending(sorted_versions)

NonFailingPresent ==
    \A d \in Range(directories) :
        fetch[d].status = 200 =>
            \A k \in DOMAIN Expected(d) :
                \E m \in DOMAIN MatchesOf(results, Version(d)) :
                    /\ MatchesOf(results, Version(d))[m].line = Expected(d)[k].line
                    /\ MatchesOf(results, Version(d))[m].line_num = Expected(d)[k].line_num

\* C5: once the tasks are submitted, whatever task fails, the search
\* eventually returns with every task consumed, the processed count equal to
\* the number of listed directories and the matches of every directory that
\* did not fail in the ResultSet.
C5_FailureIsolated ==
    (pc = "pool") ~>
        (/\ pc = "searched"
         /\ \A i \in DOMAIN futures : futures[i].consumed
         /\ processed = Len(directories)
         /\ NonFailingPresent)

\* C5 witness: the search returned with a failed task and the matches of a
\* sibling that did not fail.
C5_Witness ==
    /\ pc = "searched"
    /\ processed = Len(directories)
    /\ \E d \in Range(directories) : fetch[d].status \in {0, 500}
    /\ \E d \in Range(directories) :
          fetch[d].status = 200 /\ Version(d) \in Keys(results)

\* C6: no exception escapes main.
C6_MainCompletes == pc # "crashed"

\* C7: with zero directories no task is submitted, the ResultSet is empty,
\* the reporter prints the no-matches message and no banner, and a file that
\* is written holds the header and "No matches found.".
C7_ZeroDirectories ==
    (pc # "start" /\ directories = << >>) =>
        /\ futures = << >>
        /\ results = << >>
        /\ pc # "crashed"
        /\ pc \in {"printed", "done"} => console = <<Plain("nomatch")>>
        /\ outfile.written => outfile.body = <<Plain("header"), Plain("nomatch")>>

\* C7 witness: the listing fetch failed and the file was written.
C7_Witness ==
    /\ pc = "done"
    /\ ~page.ok
    /\ directories = << >>
    /\ outfile.written

\* C8: the file report lists the same directories in the same order as the
\* console report, each with the same count and the same records.
C8_FileEqualsConsole ==
    (pc = "done" /\ outfile.written) => Blocks(outfile.body) = Blocks(console)

\* C9: the list get_kernel_directories returns holds each directory label at
\* most once, so at most one task is submitted per directory.
C9_Deduplicated ==
    \A i, j \in DOMAIN directories : i # j => directories[i] # directories[j]

\* the segments of a label, as version_key splits them
Segments(label) == VersionParts(Strip(label, {"v", "/"}))

NumericSegment(p) == IsDigit(Replace(p, <<"r", "c">>, << >>))

SegmentValue(p) == ToInt(Replace(p, <<"r", "c">>, << >>))

AllNumeric(parts) == \A q \in DOMAIN parts : NumericSegment(parts[q])

\* p is the first segment of a that is not a number, and b, all numeric,
\* agrees with a on the segments before p
NonNumericAgainst(a, b, p) ==
    /\ p \in DOMAIN a
    /\ ~NumericSegment(a[p])
    /\ \A q \in 1..(p - 1) : NumericSegment(a[q])
    /\ AllNumeric(b)
    /\ Len(b) >= p - 1
    /\ \A q \in 1..(p - 1) : SegmentValue(a[q]) = SegmentValue(b[q])

NonNumericLast(seq) ==
    \A i, j \in DOMAIN seq :
        \A p \in DOMAIN Segments(seq[i]) :
            NonNumericAgainst(Segments(seq[i]), Segments(seq[j]), p) => j < i

\* C10 as stated: in the list the lister returns and in the order the
\* reporter prints, a label with a non-numeric segment is placed after every
\* all-numeric label that agrees with it on the preceding segments.
C10_NonNumericLast ==
    /\ pc = "listed" => NonNumericLast(directories)
    /\ pc = "printed" => NonNumericLast(sorted_versions)

NonNumericBySentinel(seq) ==
    \A i, j \in DOMAIN seq :
        \A p \in DOMAIN Segments(seq[i]) :
            LET a == Segments(seq[i])
                b == Segments(seq[j])
            IN  NonNumericAgainst(a, b, p) =>
                    /\ (Len(b) < p \/ SegmentValue(b[p]) < Sentinel) => i < j
                    /\ (Len(b) >= p /\ SegmentValue(b[p]) > Sentinel) => j < i

\* C10 amended: the non-numeric segment counts as 999, so the label is
\* placed before every all-numeric label that agrees with it on the
\* preceding segments and has no segment or a segment below 999 there, and
\* after one whose segment there is above 999.
C10_NonNumericBySentinel ==
    /\ pc = "listed" => NonNumericBySentinel(directories)
    /\ pc = "printed" => NonNumericBySentinel(sorted_versions)

\* C10 witness: the reporter placed v6.-rc1 before v6.10 and after v6.1000.
C10_Witness ==
    /\ pc = "printed"
    /\ \E h, i, j \in DOMAIN sorted_versions :
          /\ h < i /\ i < j
          /\ sorted_versions[h] = Version(v6_1000)
          /\ sorted_versions[i] = Version(v6__rc1)
          /\ sorted_versions[j] = Version(v6_10)

====
